---- MODULE Spec2Model ----
(***************************************************************************)
(* pySankey: sankey() of pysankey/sankey.py as a state machine.            *)
(*                                                                         *)
(* One call of sankey() is one behaviour: Init holds the arguments of the  *)
(* call, the calls in the body of sankey() are the actions, and every      *)
(* iteration of the nested loop of plot_strips() is one action.  The       *)
(* helper functions are operators that return what the Python function     *)
(* returns together with the exception it raises ("None" when it raises    *)
(* nothing).                                                               *)
(*                                                                         *)
(* Numbers.  The program computes with floats; the model computes with     *)
(* exact fixed-point numbers.  Every weight and every vertical position is *)
(* stored multiplied by Scale (50), so that 0.02 * x is the integer        *)
(* x \div Scale.  A curve that went through k passes of the moving average *)
(* is stored multiplied by a further KernelDen^k (0.05 = 1 / KernelDen).   *)
(* Floating-point rounding is therefore not modelled.                      *)
(*                                                                         *)
(* Labels.  The labels of the model are the strings of LabelValues; the    *)
(* argument strLabels says whether they stand for Python str objects       *)
(* (TRUE) or for hashable objects of another type such as int (FALSE).     *)
(* Null stands for a missing entry (None / NaN).                           *)
(***************************************************************************)
EXTENDS Integers, Sequences, FiniteSets, TLC

VARIABLES
    args,         \* the arguments of the call (never changed)
    pc,           \* the statement of sankey() to execute next
    err,          \* the exception that ended the call, "None" if none
    dataFrame,    \* the frame built by create_datadrame
    allLabels,    \* labels that appear left or right, first-seen order
    leftLabels,   \* local leftLabels of sankey()
    rightLabels,  \* local rightLabels of sankey()
    colorDict,    \* local colorDict of sankey()
    ns_l,         \* ns_l[leftLabel][rightLabel]
    ns_r,         \* ns_r[leftLabel][rightLabel]
    leftWidths,   \* leftWidths[label]: "left", "bottom", "top"
    rightWidths,  \* rightWidths[label]: "right", "bottom", "top"
    topEdge,      \* <<>> while the local is unbound, <<value>> once bound
    xMax,         \* <<>> or <<numerator, denominator>>
    drawn,        \* what has been drawn on ax, in drawing order
    li,           \* index of the outer loop of plot_strips
    ri,           \* index of the inner loop of plot_strips
    ret,          \* what sankey() returned: "ax", or "nothing" so far
    ys            \* the arrays of the smoothing step (specification SpecCurve)

vars == <<args, pc, err, dataFrame, allLabels, leftLabels, rightLabels,
          colorDict, ns_l, ns_r, leftWidths, rightWidths, topEdge, xMax,
          drawn, li, ri, ret, ys>>

---------------------------------------------------------------------------
(* Bounds of the model *)

MaxRecords == 3

MaxLabels == 2

MaxOffset == 2

(* Program constants *)

Scale == 50

Aspect == 4

LabelsMsgLimit == 20

DataMsgLimit == 20

HalfSamples == 50

KernelLen == 20

KernelDen == 20

---------------------------------------------------------------------------
(* Values *)

Null == "NaN"

LabelValues == {"a", "b"}

NoColors == [given |-> FALSE, map |-> <<>>]

Range(s) == {s[k] : k \in DOMAIN s}

RECURSIVE SeqSum(_)
SeqSum(s) == IF s = <<>> THEN 0 ELSE Head(s) + SeqSum(Tail(s))

RECURSIVE Unique(_)
Unique(s) ==
    IF s = <<>> THEN <<>>
    ELSE LET init == Unique(SubSeq(s, 1, Len(s) - 1))
             last == s[Len(s)]
         IN  IF last \in Range(init) THEN init ELSE Append(init, last)

Column(df, name) == [k \in DOMAIN df |-> df[k][name]]

Put(d, k, v) == [x \in (DOMAIN d) \cup {k} |-> IF x = k THEN v ELSE d[x]]

EmptyDict == [x \in {} |-> 0]

Join(items, isStr) == IF items # {} /\ ~isStr THEN "TypeError" ELSE "None"

---------------------------------------------------------------------------
(* The helper functions of sankey.py *)

init_values(a) ==
    LET lw == IF Len(a.leftWeight) = 0
              THEN [k \in 1..Len(a.left) |-> Scale * 1]
              ELSE [k \in DOMAIN a.leftWeight |-> Scale * a.leftWeight[k]]
        rw == IF Len(a.rightWeight) = 0
              THEN lw
              ELSE [k \in DOMAIN a.rightWeight |-> Scale * a.rightWeight[k]]
    IN  [leftLabels |-> a.leftLabels, leftWeight |-> lw,
         rightLabels |-> a.rightLabels, rightWeight |-> rw]

HasNullsLeftOnly(df) == \E k \in DOMAIN df : df[k].left = Null

HasNulls(df) ==
    \E k \in DOMAIN df : df[k].left = Null \/ df[k].right = Null

create_datadrame(left, leftWeight, right, rightWeight) ==
    LET df == [k \in 1..Len(left) |->
                  [left |-> left[k], right |-> right[k],
                   leftWeight |-> leftWeight[k],
                   rightWeight |-> rightWeight[k]]]
    IN  IF HasNulls(df)
        THEN [err |-> "NullsInFrame", df |-> <<>>]
        ELSE [err |-> "None", df |-> df]

MismatchError(labels, data, isStr) ==
    IF Cardinality(labels) <= LabelsMsgLimit
          /\ Join(labels, isStr) # "None"
    THEN "TypeError"
    ELSE IF Cardinality(data) < DataMsgLimit /\ Join(data, isStr) # "None"
         THEN "TypeError"
         ELSE "LabelMismatch"

check_data_matches_labels(labels, data, isStr) ==
    IF Len(labels) > 0
    THEN IF Range(labels) # Range(data)
         THEN MismatchError(Range(labels), Range(data), isStr)
         ELSE "None"
    ELSE "None"

identify_labels(df, lLabels, rLabels, isStr) ==
    LET lerr == IF Len(lLabels) = 0 THEN "None"
                ELSE check_data_matches_labels(lLabels, Column(df, "left"),
                                               isStr)
        rerr == IF Len(rLabels) = 0 THEN "None"
                ELSE check_data_matches_labels(rLabels, Column(df, "right"),
                                               isStr)
        ll == IF Len(lLabels) = 0 THEN Unique(Column(df, "left"))
              ELSE lLabels
        rl == IF Len(rLabels) = 0 THEN Unique(Column(df, "right"))
              ELSE rLabels
    IN  IF lerr # "None"
        THEN [err |-> lerr, leftLabels |-> lLabels, rightLabels |-> rLabels]
        ELSE IF rerr # "None"
             THEN [err |-> rerr, leftLabels |-> ll, rightLabels |-> rLabels]
             ELSE [err |-> "None", leftLabels |-> ll, rightLabels |-> rl]

Palette(labels) ==
    [l \in Range(labels) |->
        <<"hls", (CHOOSE k \in DOMAIN labels : labels[k] = l) - 1,
          Len(labels)>>]

create_colors(labels, cd, isStr) ==
    IF ~cd.given
    THEN [err |-> "None", colorDict |-> [given |-> TRUE,
                                         map |-> Palette(labels)]]
    ELSE LET missing == {l \in Range(labels) : l \notin DOMAIN cd.map}
         IN  IF missing # {}
             THEN [err |-> IF Join(missing, isStr) # "None"
                           THEN "TypeError" ELSE "ValueError",
                   colorDict |-> cd]
             ELSE [err |-> "None", colorDict |-> cd]

PairRows(df, leftLabel, rightLabel) ==
    {k \in DOMAIN df : df[k].left = leftLabel /\ df[k].right = rightLabel}

RECURSIVE SumOver(_, _, _)
SumOver(df, rows, col) ==
    IF rows = {} THEN 0
    ELSE LET k == CHOOSE x \in rows : TRUE
         IN  df[k][col] + SumOver(df, rows \ {k}, col)

determine_widths_left_twice(df, lLabels, rLabels) ==
    [ns_l |-> [l \in Range(lLabels) |-> [r \in Range(rLabels) |->
                  SumOver(df, PairRows(df, l, r), "leftWeight")]],
     ns_r |-> [l \in Range(lLabels) |-> [r \in Range(rLabels) |->
                  SumOver(df, PairRows(df, l, r), "leftWeight")]]]

determine_widths(df, lLabels, rLabels) ==
    [ns_l |-> [l \in Range(lLabels) |-> [r \in Range(rLabels) |->
                  SumOver(df, PairRows(df, l, r), "leftWeight")]],
     ns_r |-> [l \in Range(lLabels) |-> [r \in Range(rLabels) |->
                  SumOver(df, PairRows(df, l, r), "rightWeight")]]]

WeightCol(side) == IF side = "left" THEN "leftWeight" ELSE "rightWeight"

LabelWeight(df, label, side) ==
    SumOver(df, {k \in DOMAIN df : df[k][side] = label}, WeightCol(side))

SideTotal(df, side) == SumOver(df, DOMAIN df, WeightCol(side))

Gap(df, side) == SideTotal(df, side) \div Scale

LabelWidthsOwnGap(df, labels, side, i, widths) ==
    LET w == LabelWeight(df, labels[i], side)
        bottom == IF i = 1 THEN 0
                  ELSE widths[labels[i - 1]]["top"] + (w \div Scale)
    IN  (side :> w) @@ ("bottom" :> bottom) @@ ("top" :> bottom + w)

LabelWidths(df, labels, side, i, widths) ==
    LET w == LabelWeight(df, labels[i], side)
        bottom == IF i = 1 THEN 0
                  ELSE widths[labels[i - 1]]["top"] + Gap(df, side)
    IN  (side :> w) @@ ("bottom" :> bottom) @@ ("top" :> bottom + w)

RECURSIVE PositionsLoop(_, _, _, _, _, _)
PositionsLoop(df, labels, side, i, widths, edge) ==
    IF i > Len(labels)
    THEN [widths |-> widths, topEdge |-> edge]
    ELSE LET lw == LabelWidths(df, labels, side, i, widths)
         IN  PositionsLoop(df, labels, side, i + 1,
                           Put(widths, labels[i], lw),
                           IF i = 1 THEN edge ELSE <<lw["top"]>>)

_get_positions_and_total_widths(df, labels, side) ==
    LET r == PositionsLoop(df, labels, side, 1, EmptyDict, <<>>)
    IN  IF r.topEdge = <<>>
        THEN [err |-> "UnboundLocalError", widths |-> EmptyDict,
              topEdge |-> <<>>]
        ELSE [err |-> "None", widths |-> r.widths, topEdge |-> r.topEdge]

Bars(labels, widths, side, cd) ==
    [k \in 1..(2 * Len(labels)) |->
        LET label == labels[(k + 1) \div 2]
        IN  IF k % 2 = 1
            THEN [op |-> "bar", side |-> side, label |-> label,
                  y1 |-> widths[label]["bottom"],
                  y2 |-> widths[label]["bottom"] + widths[label][side],
                  color |-> cd.map[label]]
            ELSE [op |-> "text", side |-> side, label |-> label,
                  y1 |-> 2 * widths[label]["bottom"] + widths[label][side],
                  y2 |-> 2,
                  color |-> <<>>]]

draw_vertical_bars(cd, lLabels, lWidths, rLabels, rWidths) ==
    Bars(lLabels, lWidths, "left", cd) \o Bars(rLabels, rWidths, "right", cd)

---------------------------------------------------------------------------
(* The smoothing of plot_strips *)

StepArray(l, r) ==
    [k \in 1..(2 * HalfSamples) |-> IF k <= HalfSamples THEN l ELSE r]

RECURSIVE WindowSum(_, _, _)
WindowSum(a, k, n) ==
    IF n = 0 THEN 0 ELSE a[k + n - 1] + WindowSum(a, k, n - 1)

ConvolveFull(a) ==
    LET pad == [k \in 1..(KernelLen - 1) |-> 0]
    IN  [k \in 1..(Len(a) + KernelLen - 1) |->
            WindowSum(pad \o a \o pad, k, KernelLen)]

Convolve(a) ==
    [k \in 1..(Len(a) - KernelLen + 1) |-> WindowSum(a, k, KernelLen)]

Smooth(l, r) == Convolve(Convolve(StepArray(l, r)))

---------------------------------------------------------------------------
(* The arguments of a call *)

SeqsUpTo(S, n) == UNION {[1..k -> S] : k \in 0..n}

Args(left, right, lw, rw, cd, lLabels, rLabels, rightColor, isStr) ==
    [left |-> left, right |-> right, leftWeight |-> lw, rightWeight |-> rw,
     colorDict |-> cd, leftLabels |-> lLabels, rightLabels |-> rLabels,
     rightColor |-> rightColor, strLabels |-> isStr]

UserColors(keys) == [given |-> TRUE, map |-> [k \in keys |-> <<"user", k>>]]

Start(a) ==
    /\ args = a
    /\ pc = "create_datadrame"
    /\ err = "None"
    /\ dataFrame = <<>>
    /\ allLabels = <<>>
    /\ leftLabels = <<>>
    /\ rightLabels = <<>>
    /\ colorDict = NoColors
    /\ ns_l = EmptyDict
    /\ ns_r = EmptyDict
    /\ leftWidths = EmptyDict
    /\ rightWidths = EmptyDict
    /\ topEdge = <<>>
    /\ xMax = <<>>
    /\ drawn = <<>>
    /\ li = 0
    /\ ri = 0
    /\ ret = "nothing"
    /\ ys = <<>>

---------------------------------------------------------------------------
(* sankey() *)

Raise(e) ==
    /\ pc' = "raised"
    /\ err' = e

\* lines 106-124: init_values, create_datadrame, allLabels
SankeyCreateDataframe ==
    /\ pc = "create_datadrame"
    /\ LET v == init_values(args)
           r == create_datadrame(args.left, v.leftWeight,
                                 args.right, v.rightWeight)
       IN  IF r.err # "None"
           THEN /\ Raise(r.err)
                /\ UNCHANGED <<dataFrame, allLabels, leftLabels,
                               rightLabels, colorDict>>
           ELSE /\ pc' = "identify_labels"
                /\ err' = err
                /\ dataFrame' = r.df
                /\ allLabels' = Unique(Unique(Column(r.df, "left"))
                                       \o Unique(Column(r.df, "right")))
                /\ leftLabels' = v.leftLabels
                /\ rightLabels' = v.rightLabels
                /\ colorDict' = args.colorDict
    /\ UNCHANGED <<args, ns_l, ns_r, leftWidths, rightWidths, topEdge, xMax,
                   drawn, li, ri, ret, ys>>

\* line 125
SankeyIdentifyLabels ==
    /\ pc = "identify_labels"
    /\ LET r == identify_labels(dataFrame, leftLabels, rightLabels,
                                args.strLabels)
       IN  IF r.err # "None"
           THEN /\ Raise(r.err)
                /\ UNCHANGED <<leftLabels, rightLabels>>
           ELSE /\ pc' = "create_colors"
                /\ err' = err
                /\ leftLabels' = r.leftLabels
                /\ rightLabels' = r.rightLabels
    /\ UNCHANGED <<args, dataFrame, allLabels, colorDict, ns_l, ns_r,
                   leftWidths, rightWidths, topEdge, xMax, drawn, li, ri,
                   ret, ys>>

\* line 126
SankeyCreateColors ==
    /\ pc = "create_colors"
    /\ LET r == create_colors(allLabels, colorDict, args.strLabels)
       IN  IF r.err # "None"
           THEN /\ Raise(r.err)
                /\ UNCHANGED colorDict
           ELSE /\ pc' = "determine_widths"
                /\ err' = err
                /\ colorDict' = r.colorDict
    /\ UNCHANGED <<args, dataFrame, allLabels, leftLabels, rightLabels,
                   ns_l, ns_r, leftWidths, rightWidths, topEdge, xMax,
                   drawn, li, ri, ret, ys>>

\* line 127
SankeyDetermineWidths ==
    /\ pc = "determine_widths"
    /\ LET r == determine_widths(dataFrame, leftLabels, rightLabels)
       IN  /\ ns_l' = r.ns_l
           /\ ns_r' = r.ns_r
    /\ pc' = "left_positions"
    /\ UNCHANGED <<args, err, dataFrame, allLabels, leftLabels, rightLabels,
                   colorDict, leftWidths, rightWidths, topEdge, xMax, drawn,
                   li, ri, ret, ys>>

\* line 129
SankeyLeftPositions ==
    /\ pc = "left_positions"
    /\ LET r == _get_positions_and_total_widths(dataFrame, leftLabels, "left")
       IN  IF r.err # "None"
           THEN /\ Raise(r.err)
                /\ UNCHANGED <<leftWidths, topEdge>>
           ELSE /\ pc' = "right_positions"
                /\ err' = err
                /\ leftWidths' = r.widths
                /\ topEdge' = r.topEdge
    /\ UNCHANGED <<args, dataFrame, allLabels, leftLabels, rightLabels,
                   colorDict, ns_l, ns_r, rightWidths, xMax, drawn, li, ri,
                   ret, ys>>

\* lines 131-135
SankeyRightPositions ==
    /\ pc = "right_positions"
    /\ LET r == _get_positions_and_total_widths(dataFrame, rightLabels,
                                               "right")
       IN  IF r.err # "None"
           THEN /\ Raise(r.err)
                /\ UNCHANGED <<rightWidths, topEdge, xMax>>
           ELSE /\ pc' = "draw_vertical_bars"
                /\ err' = err
                /\ rightWidths' = r.widths
                /\ topEdge' = r.topEdge
                /\ xMax' = <<r.topEdge[1], Aspect>>
    /\ UNCHANGED <<args, dataFrame, allLabels, leftLabels, rightLabels,
                   colorDict, ns_l, ns_r, leftWidths, drawn, li, ri, ret, ys>>

\* lines 136-138
SankeyDrawVerticalBars ==
    /\ pc = "draw_vertical_bars"
    /\ drawn' = drawn \o draw_vertical_bars(colorDict, leftLabels,
                                            leftWidths, rightLabels,
                                            rightWidths)
    /\ pc' = "plot_strips"
    /\ li' = 1
    /\ ri' = 1
    /\ UNCHANGED <<args, err, dataFrame, allLabels, leftLabels, rightLabels,
                   colorDict, ns_l, ns_r, leftWidths, rightWidths, topEdge,
                   xMax, ret, ys>>

HasStripNonzero(df, leftLabel, rightLabel) ==
    \/ SumOver(df, PairRows(df, leftLabel, rightLabel), "leftWeight") # 0
    \/ SumOver(df, PairRows(df, leftLabel, rightLabel), "rightWeight") # 0

HasStrip(df, leftLabel, rightLabel) == PairRows(df, leftLabel, rightLabel) # {}

AssignBottom(widths, label, amount) ==
    [widths EXCEPT ![label]["bottom"] = amount]

AdvanceBottom(widths, label, amount) ==
    [widths EXCEPT ![label]["bottom"] = @ + amount]

Strip(leftLabel, rightLabel, labelColor) ==
    [op |-> "strip", left |-> leftLabel, right |-> rightLabel,
     d_left |-> leftWidths[leftLabel]["bottom"],
     d_right |-> rightWidths[rightLabel]["bottom"],
     u_left |-> leftWidths[leftLabel]["bottom"] + ns_l[leftLabel][rightLabel],
     u_right |-> rightWidths[rightLabel]["bottom"]
                    + ns_r[leftLabel][rightLabel],
     color |-> colorDict.map[labelColor]]

\* lines 341-380: one iteration of the inner loop of plot_strips
PlotStripsIteration ==
    /\ pc = "plot_strips"
    /\ li <= Len(leftLabels)
    /\ ri <= Len(rightLabels)
    /\ LET leftLabel == leftLabels[li]
           rightLabel == rightLabels[ri]
           labelColor == IF args.rightColor THEN rightLabel ELSE leftLabel
       IN  IF HasStrip(dataFrame, leftLabel, rightLabel)
           THEN /\ leftWidths' = AdvanceBottom(leftWidths, leftLabel,
                                               ns_l[leftLabel][rightLabel])
                /\ rightWidths' = AdvanceBottom(rightWidths, rightLabel,
                                                ns_r[leftLabel][rightLabel])
                /\ drawn' = Append(drawn,
                                   Strip(leftLabel, rightLabel, labelColor))
           ELSE UNCHANGED <<leftWidths, rightWidths, drawn>>
    /\ IF ri < Len(rightLabels)
       THEN /\ ri' = ri + 1
            /\ li' = li
       ELSE /\ ri' = 1
            /\ li' = li + 1
    /\ UNCHANGED <<args, pc, err, dataFrame, allLabels, leftLabels,
                   rightLabels, colorDict, ns_l, ns_r, topEdge, xMax, ret, ys>>

\* line 381 and lines 152-157, with figSize, figureName and closePlot left
\* at their defaults
PlotStripsEndAndReturn ==
    /\ pc = "plot_strips"
    /\ li > Len(leftLabels) \/ Len(rightLabels) = 0
    /\ drawn' = Append(drawn, [op |-> "axis_off"])
    /\ pc' = "done"
    /\ ret' = "ax"
    /\ UNCHANGED <<args, err, dataFrame, allLabels, leftLabels, rightLabels,
                   colorDict, ns_l, ns_r, leftWidths, rightWidths, topEdge,
                   xMax, li, ri, ys>>

Next ==
    \/ SankeyCreateDataframe
    \/ SankeyIdentifyLabels
    \/ SankeyCreateColors
    \/ SankeyDetermineWidths
    \/ SankeyLeftPositions
    \/ SankeyRightPositions
    \/ SankeyDrawVerticalBars
    \/ PlotStripsIteration
    \/ PlotStripsEndAndReturn

---------------------------------------------------------------------------
(* Specifications: the same call, over different families of arguments *)

LabelLists == SeqsUpTo(LabelValues, MaxLabels)

ColorDicts == {NoColors} \cup {UserColors(K) : K \in SUBSET LabelValues}

\* Calls without missing entries, with the default weights and without a
\* colour mapping; explicit label lists of every kind, labels of either type.
Init ==
    \E n \in 0..MaxRecords :
        \E left \in [1..n -> LabelValues], right \in [1..n -> LabelValues],
           ll \in LabelLists, rl \in LabelLists, isStr \in BOOLEAN :
            Start(Args(left, right, <<>>, <<>>, NoColors, ll, rl, FALSE,
                       isStr))

Spec == Init /\ [][Next]_vars

\* Calls without missing entries and without explicit label lists; colour
\* mappings of every kind, labels of either type.
InitColors ==
    \E n \in 0..MaxRecords :
        \E left \in [1..n -> LabelValues], right \in [1..n -> LabelValues],
           cd \in ColorDicts, rc \in BOOLEAN, isStr \in BOOLEAN :
            Start(Args(left, right, <<>>, <<>>, cd, <<>>, <<>>, rc, isStr))

SpecColors == InitColors /\ [][Next]_vars

\* Calls whose columns may hold missing entries.
InitNulls ==
    \E n \in 0..MaxRecords :
        \E left \in [1..n -> LabelValues \cup {Null}],
           right \in [1..n -> LabelValues \cup {Null}],
           cd \in {NoColors, UserColors({}), UserColors({"a"})},
           ll \in SeqsUpTo(LabelValues, 1), isStr \in BOOLEAN :
            Start(Args(left, right, <<>>, <<>>, cd, ll, <<>>, FALSE, isStr))

SpecNulls == InitNulls /\ [][Next]_vars

\* Calls that pass validation.  The weights are absent, or 1, 2, 3, ... on
\* both sides, or 0, 1, 2, ... on both sides, or 1, 0, -1, ... on the left
\* with 1, 2, 3, ... on the right.  A label list is absent, or an ordering
\* of the labels of its column, or such an ordering with its first label
\* repeated at the end.
WeightVectors(n) ==
    {<< <<>>, <<>> >>,
     << [k \in 1..n |-> k], <<>> >>,
     << [k \in 1..n |-> k - 1], [k \in 1..n |-> k - 1] >>,
     << [k \in 1..n |-> 2 - k], [k \in 1..n |-> k] >>}

Orderings(S) ==
    LET perms == {s \in [1..Cardinality(S) -> S] : Range(s) = S}
    IN  {<<>>} \cup perms \cup {Append(s, s[1]) : s \in perms \ {<<>>}}

InitLayout ==
    \E n \in 0..MaxRecords :
        \E left \in [1..n -> LabelValues], right \in [1..n -> LabelValues],
           w \in WeightVectors(n) :
            \E ll \in Orderings(Range(left)), rl \in Orderings(Range(right)) :
                Start(Args(left, right, w[1], w[2], NoColors, ll, rl, FALSE,
                           TRUE))

SpecLayout == InitLayout /\ [][Next]_vars

\* The smoothing of one strip (lines 356-368), for strips whose four step
\* offsets are drawn from Offsets.
Offsets == (-1)..MaxOffset

StartCurve(s) ==
    /\ args = s
    /\ pc = "ys_d"
    /\ err = "None"
    /\ dataFrame = <<>>
    /\ allLabels = <<>>
    /\ leftLabels = <<>>
    /\ rightLabels = <<>>
    /\ colorDict = NoColors
    /\ ns_l = EmptyDict
    /\ ns_r = EmptyDict
    /\ leftWidths = EmptyDict
    /\ rightWidths = EmptyDict
    /\ topEdge = <<>>
    /\ xMax = <<>>
    /\ drawn = <<>>
    /\ li = 0
    /\ ri = 0
    /\ ret = "nothing"
    /\ ys = [ys_d |-> <<>>, ys_u |-> <<>>]

InitCurve ==
    \E dl \in Offsets, dr \in Offsets, ul \in Offsets, ur \in Offsets :
        StartCurve([op |-> "strip", d_left |-> dl, d_right |-> dr,
                    u_left |-> ul, u_right |-> ur])

\* lines 356-361
SmoothLower ==
    /\ pc = "ys_d"
    /\ ys' = [ys EXCEPT !.ys_d = Smooth(args.d_left, args.d_right)]
    /\ pc' = "ys_u"
    /\ UNCHANGED <<args, err, dataFrame, allLabels, leftLabels, rightLabels,
                   colorDict, ns_l, ns_r, leftWidths, rightWidths, topEdge,
                   xMax, drawn, li, ri, ret>>

\* lines 362-368
SmoothUpper ==
    /\ pc = "ys_u"
    /\ ys' = [ys EXCEPT !.ys_u = Smooth(args.u_left, args.u_right)]
    /\ pc' = "fill_between"
    /\ UNCHANGED <<args, err, dataFrame, allLabels, leftLabels, rightLabels,
                   colorDict, ns_l, ns_r, leftWidths, rightWidths, topEdge,
                   xMax, drawn, li, ri, ret>>

NextCurve == SmoothLower \/ SmoothUpper

SpecCurve == InitCurve /\ [][NextCurve]_vars

---------------------------------------------------------------------------
(* Vocabulary of the properties.  These read the arguments and the state   *)
(* directly and use none of the operators that model the helper functions. *)

Ended == pc \in {"done", "raised"}

ArgLeftSet == {args.left[k] : k \in DOMAIN args.left} \ {Null}

ArgRightSet == {args.right[k] : k \in DOMAIN args.right} \ {Null}

ArgHasNull ==
    \/ \E k \in DOMAIN args.left : args.left[k] = Null
    \/ \E k \in DOMAIN args.right : args.right[k] = Null

LeftMismatch ==
    /\ args.leftLabels # <<>>
    /\ {args.leftLabels[k] : k \in DOMAIN args.leftLabels} # ArgLeftSet

RightMismatch ==
    /\ args.rightLabels # <<>>
    /\ {args.rightLabels[k] : k \in DOMAIN args.rightLabels} # ArgRightSet

ColorsMissing ==
    /\ args.colorDict.given
    /\ \E l \in ArgLeftSet \cup ArgRightSet : l \notin DOMAIN args.colorDict.map

ValidArgs ==
    /\ ~ArgHasNull
    /\ ~LeftMismatch
    /\ ~RightMismatch
    /\ ~ColorsMissing

NoRepeats(s) == \A i, j \in DOMAIN s : i # j => s[i] # s[j]

IsStrip(d) == d.op = "strip"

Strips == SelectSeq(drawn, IsStrip)

OccurringPairs == {<<args.left[k], args.right[k]>> : k \in DOMAIN args.left}

RecordExists(l, r) ==
    \E k \in DOMAIN args.left : args.left[k] = l /\ args.right[k] = r

StripFor(l, r) ==
    \E k \in DOMAIN drawn :
        IsStrip(drawn[k]) /\ drawn[k].left = l /\ drawn[k].right = r

\* create_colors has returned
PastColors ==
    \/ pc \in {"determine_widths", "left_positions", "right_positions",
               "draw_vertical_bars", "plot_strips", "done"}
    \/ pc = "raised" /\ err = "UnboundLocalError"

\* determine_widths has returned
PastWidths == PastColors /\ pc # "determine_widths"

\* the layout of the left (right) side has returned
PastLeft == pc \in {"right_positions", "draw_vertical_bars", "plot_strips",
                    "done"}
               \/ (pc = "raised" /\ leftWidths # EmptyDict)

PastRight == pc \in {"draw_vertical_bars", "plot_strips", "done"}

\* sum of column col over the records with left label l and right label r
PairSum(l, r, col) ==
    SeqSum([k \in DOMAIN dataFrame |->
               IF dataFrame[k].left = l /\ dataFrame[k].right = r
               THEN dataFrame[k][col] ELSE 0])

\* sum of the weights of a side over the records with that label
LabelSum(side, label) ==
    SeqSum([k \in DOMAIN dataFrame |->
               IF dataFrame[k][side] = label
               THEN dataFrame[k][side \o "Weight"] ELSE 0])

\* sum of all the weights of a side
SideSum(side) ==
    SeqSum([k \in DOMAIN dataFrame |-> dataFrame[k][side \o "Weight"]])

RECURSIVE SumAt(_, _)
SumAt(f, S) ==
    IF S = {} THEN 0
    ELSE LET x == CHOOSE y \in S : TRUE IN f[x] + SumAt(f, S \ {x})

NonNegativeWeights ==
    \A k \in DOMAIN dataFrame :
        dataFrame[k].leftWeight >= 0 /\ dataFrame[k].rightWeight >= 0

---------------------------------------------------------------------------
(* C1 *)

\* C1: every valid call (here: at least one record, explicit label lists
\* without repeated labels) completes without an exception, draws one strip
\* per occurring (left, right) pair and returns the Axes.
C1_ValidCallReturnsAxes ==
    (/\ ValidArgs
     /\ Len(args.left) > 0
     /\ NoRepeats(args.leftLabels)
     /\ NoRepeats(args.rightLabels)
     /\ Ended)
    => (/\ pc = "done"
        /\ err = "None"
        /\ ret = "ax"
        /\ Len(Strips) = Cardinality(OccurringPairs))

---------------------------------------------------------------------------
(* C2 *)

\* C2: when a label list is supplied, the call raises LabelMismatch exactly
\* when the supplied set differs from the set of values of the column, no
\* other kind of error is raised for a mismatch, and a matching list is the
\* ordering used for its side.
C2_LabelMismatchExactly ==
    (/\ Ended
     /\ ~ArgHasNull
     /\ Len(args.left) > 0
     /\ args.leftLabels # <<>> \/ args.rightLabels # <<>>)
    => (/\ (LeftMismatch \/ RightMismatch) <=> err = "LabelMismatch"
        /\ (PastColors /\ args.leftLabels # <<>>)
               => leftLabels = args.leftLabels
        /\ (PastColors /\ args.rightLabels # <<>>)
               => rightLabels = args.rightLabels)

---------------------------------------------------------------------------
(* C3 *)

NothingDone ==
    /\ dataFrame = <<>>
    /\ allLabels = <<>>
    /\ leftLabels = <<>>
    /\ rightLabels = <<>>
    /\ colorDict = NoColors
    /\ ns_l = EmptyDict
    /\ ns_r = EmptyDict
    /\ leftWidths = EmptyDict
    /\ rightWidths = EmptyDict
    /\ topEdge = <<>>
    /\ xMax = <<>>
    /\ drawn = <<>>
    /\ ret = "nothing"

\* C3: a call with a missing left or right entry raises NullsInFrame, and
\* does so before labels are identified, colours resolved, widths or
\* positions computed or anything drawn; a call without a missing entry
\* never raises NullsInFrame.
C3_NullsInFrameFirst ==
    /\ (ArgHasNull /\ pc # "create_datadrame")
           => (pc = "raised" /\ err = "NullsInFrame" /\ NothingDone)
    /\ ~ArgHasNull => err # "NullsInFrame"

C3_Witness ==
    /\ pc = "raised"
    /\ err = "NullsInFrame"
    /\ args.left[1] # Null
    /\ args.right[1] = Null
    /\ LeftMismatch
    /\ ColorsMissing

---------------------------------------------------------------------------
(* C4 *)

\* C4: with a colour mapping that omits a label of the union the call fails
\* with ValueError before drawing; a mapping that covers the union is
\* returned unmodified; without a mapping the generated one has exactly one
\* entry per label of the union.
C4_ColorCoverage ==
    /\ (/\ Ended
        /\ ~ArgHasNull
        /\ Len(args.left) > 0
        /\ ~LeftMismatch
        /\ ~RightMismatch
        /\ ColorsMissing)
           => (err = "ValueError" /\ drawn = <<>>)
    /\ (PastColors /\ args.colorDict.given) => colorDict = args.colorDict
    /\ (PastColors /\ ~args.colorDict.given)
           => DOMAIN colorDict.map = ArgLeftSet \cup ArgRightSet

---------------------------------------------------------------------------
(* C5 *)

PositionsAsClaimed(labels, widths, side) ==
    /\ labels # <<>> => widths[labels[1]]["bottom"] = 0
    /\ \A i \in 2..Len(labels) :
           Scale * (widths[labels[i]]["bottom"] - widths[labels[i - 1]]["top"])
               = SideSum(side)
    /\ \A i \in 1..Len(labels) :
           widths[labels[i]]["top"]
               = widths[labels[i]]["bottom"] + LabelSum(side, labels[i])

NoOverlap(labels, widths) ==
    \A i, j \in 1..Len(labels) :
        i < j => widths[labels[i]]["top"] <= widths[labels[j]]["bottom"]

\* C5 as stated (here for non-negative weights): for every label sequence
\* that passes validation the returned positions have bottom 0 for the first
\* label, bottom_i = top_(i-1) + 0.02 * (side total) for every later label,
\* and top = bottom + (weight of the label).
C5_PositionsAnySequence ==
    NonNegativeWeights =>
        /\ pc \in {"right_positions", "draw_vertical_bars"}
               => PositionsAsClaimed(leftLabels, leftWidths, "left")
        /\ pc = "draw_vertical_bars"
               => PositionsAsClaimed(rightLabels, rightWidths, "right")

\* C5 amended: the same for every label sequence without a repeated label;
\* with non-negative weights the intervals of such a sequence do not
\* overlap.
C5_PositionsDistinctLabels ==
    /\ (pc \in {"right_positions", "draw_vertical_bars"}
            /\ NoRepeats(leftLabels))
           => /\ PositionsAsClaimed(leftLabels, leftWidths, "left")
              /\ NonNegativeWeights => NoOverlap(leftLabels, leftWidths)
    /\ (pc = "draw_vertical_bars" /\ NoRepeats(rightLabels))
           => /\ PositionsAsClaimed(rightLabels, rightWidths, "right")
              /\ NonNegativeWeights => NoOverlap(rightLabels, rightWidths)

C5_Witness ==
    /\ pc = "draw_vertical_bars"
    /\ args.leftLabels # <<>>
    /\ args.rightLabels = <<>>
    /\ Len(leftLabels) = 2
    /\ Len(rightLabels) = 2
    /\ NoRepeats(leftLabels)
    /\ leftWidths[leftLabels[2]]["bottom"] > leftWidths[leftLabels[1]]["top"]
    /\ leftWidths[leftLabels[1]]["top"] > 0
    /\ rightWidths[rightLabels[2]]["bottom"]
           > rightWidths[rightLabels[1]]["top"]
    /\ SideSum("left") # SideSum("right")

---------------------------------------------------------------------------
(* C6 *)

\* C6: determine_widths yields for every (leftLabel, rightLabel) pair the
\* sums of leftWeight and of rightWeight over exactly the records of that
\* pair (0 without a record); per left label the leftWeights of its pairs
\* add up to the weight the layout uses for the label, and per right label
\* the rightWeights of its pairs do.
C6_WidthsConserved ==
    /\ PastWidths =>
           \A l \in Range(leftLabels), r \in Range(rightLabels) :
               /\ ns_l[l][r] = PairSum(l, r, "leftWeight")
               /\ ns_r[l][r] = PairSum(l, r, "rightWeight")
               /\ ~RecordExists(l, r) => (ns_l[l][r] = 0 /\ ns_r[l][r] = 0)
    /\ PastLeft =>
           \A l \in Range(leftLabels) :
               SumAt(ns_l[l], Range(rightLabels)) = leftWidths[l]["left"]
    /\ PastRight =>
           \A r \in Range(rightLabels) :
               SumAt([l \in Range(leftLabels) |-> ns_r[l][r]],
                     Range(leftLabels)) = rightWidths[r]["right"]

C6_Witness ==
    /\ pc = "done"
    /\ \E l \in Range(leftLabels), r \in Range(rightLabels) :
           ~RecordExists(l, r)
    /\ \E l \in Range(leftLabels), r \in Range(rightLabels) :
           /\ Cardinality({k \in DOMAIN args.left :
                              args.left[k] = l /\ args.right[k] = r}) = 2
           /\ ns_l[l][r] # ns_r[l][r]
           /\ ns_l[l][r] # 0

---------------------------------------------------------------------------
(* C7 *)

\* C7 as stated (here for label orderings without a repeated label): a
\* strip is emitted for a pair if and only if the pair's aggregated weight
\* is nonzero.
C7_StripIffNonzeroWeight ==
    (pc = "done" /\ NoRepeats(leftLabels) /\ NoRepeats(rightLabels)) =>
        \A l \in Range(leftLabels), r \in Range(rightLabels) :
            StripFor(l, r) <=> (ns_l[l][r] # 0 \/ ns_r[l][r] # 0)

\* C7 amended: a strip is emitted for a pair if and only if at least one
\* record carries that left and that right label, whatever its weight.
C7_StripIffRecord ==
    /\ \A k \in DOMAIN drawn :
           IsStrip(drawn[k]) => RecordExists(drawn[k].left, drawn[k].right)
    /\ pc = "done" =>
           \A l \in Range(leftLabels), r \in Range(rightLabels) :
               StripFor(l, r) <=> RecordExists(l, r)

C7_Witness ==
    /\ pc = "done"
    /\ \E k \in DOMAIN drawn :
           /\ IsStrip(drawn[k])
           /\ drawn[k].u_left = drawn[k].d_left
           /\ drawn[k].u_right = drawn[k].d_right
    /\ \E l \in Range(leftLabels), r \in Range(rightLabels) : ~StripFor(l, r)

---------------------------------------------------------------------------
(* C8 *)

\* the bottom the layout gave a label (plot_strips moves "bottom" only)
LayoutBottom(widths, label, side) == widths[label]["top"] - widths[label][side]

Index(s, x) == CHOOSE k \in DOMAIN s : s[k] = x

\* leftWeights of l's pairs with the right labels before r
EarlierLeft(l, r) ==
    SeqSum([j \in 1..(Index(rightLabels, r) - 1) |-> ns_l[l][rightLabels[j]]])

\* rightWeights of r's pairs with the left labels before l
EarlierRight(l, r) ==
    SeqSum([i \in 1..(Index(leftLabels, l) - 1) |-> ns_r[leftLabels[i]][r]])

StripsStartAsClaimed ==
    \A k \in DOMAIN drawn :
        IsStrip(drawn[k]) =>
            LET l == drawn[k].left
                r == drawn[k].right
            IN  /\ drawn[k].d_left = LayoutBottom(leftWidths, l, "left")
                                         + EarlierLeft(l, r)
                /\ drawn[k].d_right = LayoutBottom(rightWidths, r, "right")
                                          + EarlierRight(l, r)

CursorsInside ==
    /\ \A l \in Range(leftLabels) :
           /\ LayoutBottom(leftWidths, l, "left") <= leftWidths[l]["bottom"]
           /\ leftWidths[l]["bottom"] <= leftWidths[l]["top"]
    /\ \A r \in Range(rightLabels) :
           /\ LayoutBottom(rightWidths, r, "right") <= rightWidths[r]["bottom"]
           /\ rightWidths[r]["bottom"] <= rightWidths[r]["top"]

CursorsAtTop ==
    /\ \A l \in Range(leftLabels) :
           leftWidths[l]["bottom"] = leftWidths[l]["top"]
    /\ \A r \in Range(rightLabels) :
           rightWidths[r]["bottom"] = rightWidths[r]["top"]

CursorsAsClaimed ==
    /\ pc \in {"plot_strips", "done"} => (StripsStartAsClaimed /\ CursorsInside)
    /\ pc = "done" => CursorsAtTop

\* C8 as stated (here for non-negative weights): during plot_strips every
\* strip starts at its labels' layout bottoms plus the weights of the pairs
\* processed before it, every cursor stays within its label's [bottom, top],
\* and after the last pair every cursor equals its label's top.
C8_CursorsAnyInput == NonNegativeWeights => CursorsAsClaimed

\* The statement of C8 for label orderings without a repeated label and
\* weights of any sign: a negative weight moves a cursor below its bottom.
CursorsAnyWeights ==
    (NoRepeats(leftLabels) /\ NoRepeats(rightLabels)) => CursorsAsClaimed

\* C8 amended: the same when neither label ordering repeats a label; the
\* cursors stay within [bottom, top] when in addition no weight is negative.
C8_CursorsDistinctLabels ==
    (NoRepeats(leftLabels) /\ NoRepeats(rightLabels)) =>
        /\ pc \in {"plot_strips", "done"} => StripsStartAsClaimed
        /\ (pc \in {"plot_strips", "done"} /\ NonNegativeWeights)
               => CursorsInside
        /\ pc = "done" => CursorsAtTop

C8_Witness ==
    /\ pc = "done"
    /\ NoRepeats(leftLabels)
    /\ NoRepeats(rightLabels)
    /\ NonNegativeWeights
    /\ Len(leftLabels) = 2
    /\ Len(rightLabels) = 2
    /\ \E j, k \in DOMAIN drawn :
           /\ j < k
           /\ IsStrip(drawn[j])
           /\ IsStrip(drawn[k])
           /\ drawn[j].right = drawn[k].right
           /\ drawn[j].left # drawn[k].left
           /\ drawn[k].d_right > drawn[j].d_right
           /\ drawn[k].d_right > LayoutBottom(rightWidths, drawn[k].right,
                                              "right")
           /\ LayoutBottom(rightWidths, drawn[k].right, "right") > 0

---------------------------------------------------------------------------
(* C9 *)

\* C9: for every valid call (here: one whose left column has two distinct
\* labels) with at least one right label, topEdge and xMax = topEdge /
\* aspect come from the top of the last label of the right-side ordering.
C9_TopEdgeFromRightSide ==
    (/\ ValidArgs
     /\ Cardinality(ArgLeftSet) >= 2
     /\ Cardinality(ArgRightSet) >= 1
     /\ NoRepeats(args.leftLabels)
     /\ NoRepeats(args.rightLabels)
     /\ Ended)
    => (/\ pc = "done"
        /\ topEdge = <<rightWidths[rightLabels[Len(rightLabels)]]["top"]>>
        /\ xMax = <<topEdge[1], Aspect>>)

---------------------------------------------------------------------------
(* C10 *)

Min(x, y) == IF x <= y THEN x ELSE y

Max(x, y) == IF x <= y THEN y ELSE x

CurveAsClaimed(c, l, r) ==
    /\ Len(c) = 62
    /\ c[1] = KernelDen * KernelDen * l
    /\ c[Len(c)] = KernelDen * KernelDen * r
    /\ l <= r => \A k \in 1..(Len(c) - 1) : c[k] <= c[k + 1]
    /\ l >= r => \A k \in 1..(Len(c) - 1) : c[k] >= c[k + 1]
    /\ \A k \in 1..Len(c) :
           /\ KernelDen * KernelDen * Min(l, r) <= c[k]
           /\ c[k] <= KernelDen * KernelDen * Max(l, r)

\* C10: each edge curve of a strip, two "valid" passes of the 20-wide
\* moving average over the 50 + 50 sample step, has exactly 62 samples,
\* starts at the left offset, ends at the right offset, is monotonic and
\* stays within the range of the two offsets.
C10_SmoothedEdges ==
    /\ pc \in {"ys_u", "fill_between"}
           => CurveAsClaimed(ys.ys_d, args.d_left, args.d_right)
    /\ pc = "fill_between"
           => CurveAsClaimed(ys.ys_u, args.u_left, args.u_right)

C10_Witness ==
    /\ pc = "fill_between"
    /\ args.d_left < args.d_right
    /\ args.u_left > args.u_right
    /\ \E k \in 1..Len(ys.ys_d) :
           /\ ys.ys_d[1] < ys.ys_d[k]
           /\ ys.ys_d[k] < ys.ys_d[Len(ys.ys_d)]
    /\ \E k \in 1..Len(ys.ys_u) :
           /\ ys.ys_u[1] > ys.ys_u[k]
           /\ ys.ys_u[k] > ys.ys_u[Len(ys.ys_u)]

====
